---- MODULE Spec2Model ----
(***************************************************************************)
(* Model of the conversion engine of src/image.py (format registry,        *)
(* raster / PDF / document conversion, dispatcher) and of the batch driver *)
(* of ImageConverterApp that calls it from a worker thread.                *)
(*                                                                         *)
(* The outcome of every external library call (Pillow, PyMuPDF, shutil,    *)
(* the file system) is an input of the call, drawn from a small set.       *)
(***************************************************************************)
EXTENDS Integers, Sequences, FiniteSets, TLC

VARIABLES
    req,    \* the arguments of one convert_file call and the environment's answers
    res,    \* what that call did: raised or returned, its I/O, its log lines
    fs,     \* the file system: path -> content of the file at that path
    files,            \* self.files
    output_folder,    \* self.output_folder
    format_var,       \* self.format_var
    buttons,          \* state of the four buttons of disable_ui / enable_ui
    progress,         \* self.progress: shown, maximum, value
    pc,               \* where the worker thread is in convert_files
    it,               \* index of the list iterator of the worker's for loop
    count,            \* local of convert_files
    errors,           \* local of convert_files
    selected_format,  \* local of convert_files
    afterQueue,       \* callbacks posted with master.after(0, ...), oldest first
    log,              \* history: one entry per convert_file call of the run
    stepped,          \* history: progress.step calls executed in the run
    reported,         \* what conversion_complete showed in its message boxes
    runs              \* number of runs started

appVars == <<files, output_folder, format_var, buttons, progress, pc, it,
             count, errors, selected_format, afterQueue, log, stepped, reported, runs>>

vars == <<req, res, fs, appVars>>

----------------------------------------------------------------------------
(* Bounds *)

\* the largest number of pages of a PDF document
MaxPages == 3

\* the largest length of the file list
MaxFiles == 2

\* the largest number of conversion runs
MaxRuns == 1

\* the largest number of pixels of an image
MaxPixels == 2

----------------------------------------------------------------------------
(* Format registry *)

SUPPORTED_EXTS ==
    { ".png", ".jpg", ".jpeg", ".jfif", ".bmp", ".gif", ".tiff",
      ".webp", ".ico", ".ppm", ".tga", ".jp2", ".pdf", ".svg", ".heic",
      ".xlsx", ".xls", ".doc", ".docx", ".csv" }

FORMAT_MAPPING ==
    ( "JPEG"     :> <<"JPEG", ".jpg">>      @@
      "JPG"      :> <<"JPEG", ".jpg">>      @@
      "JPGE"     :> <<"JPEG", ".jpg">>      @@
      "JFIF"     :> <<"JPEG", ".jfif">>     @@
      "PNG"      :> <<"PNG", ".png">>       @@
      "BMP"      :> <<"BMP", ".bmp">>       @@
      "GIF"      :> <<"GIF", ".gif">>       @@
      "TIFF"     :> <<"TIFF", ".tiff">>     @@
      "WEBP"     :> <<"WEBP", ".webp">>     @@
      "ICO"      :> <<"ICO", ".ico">>       @@
      "PPM"      :> <<"PPM", ".ppm">>       @@
      "TGA"      :> <<"TGA", ".tga">>       @@
      "JPEG2000" :> <<"JPEG2000", ".jp2">>  @@
      "PDF"      :> <<"PDF", ".pdf">>       @@
      "SVG"      :> <<"SVG", ".svg">>       @@
      "HEIC"     :> <<"HEIC", ".heic">>     @@
      "EXCEL"    :> <<"EXCEL", ".xlsx">>    @@
      "WORD"     :> <<"WORD", ".docx">>     @@
      "CSV"      :> <<"CSV", ".csv">> )

OUTPUT_FORMAT_LIST == DOMAIN FORMAT_MAPPING

\* a lookup whose default is another entry of the registry
FormatGetPng(format_name) ==
    IF format_name \in DOMAIN FORMAT_MAPPING
    THEN FORMAT_MAPPING[format_name]
    ELSE <<"PNG", ".png">>

\* FORMAT_MAPPING.get(selected_format, ("JPEG", ".jpg"))
FormatGet(format_name) ==
    IF format_name \in DOMAIN FORMAT_MAPPING
    THEN FORMAT_MAPPING[format_name]
    ELSE <<"JPEG", ".jpg">>

----------------------------------------------------------------------------
(* Paths, file contents, the file system *)

\* mixed-case suffixes of the model and their str.lower()
UpperSuffixes ==
    ( ".PNG" :> ".png" @@ ".PDF" :> ".pdf" @@ ".Csv" :> ".csv" @@ ".DOCX" :> ".docx" )

\* str.lower() on a suffix
lower(s) == IF s \in DOMAIN UpperSuffixes THEN UpperSuffixes[s] ELSE s

\* a path: directory / (stem [+ "_page" + page] + suffix); page = 0: no page part
MkPath(dir, stem, page, suffix) ==
    [dir |-> dir, stem |-> stem, page |-> page, suffix |-> suffix]

\* the bytes a source file holds before any conversion
Bytes(p) ==
    [origin |-> p, enc |-> "raw", mode |-> "-", size |-> <<0, 0>>,
     params |-> "-"]

\* a write that keeps the content of a path that exists
WriteIfAbsent(fs0, p, c) ==
    [q \in (DOMAIN fs0) \cup {p} |-> IF q \in DOMAIN fs0 THEN fs0[q] ELSE c]

\* the file system after writing content c at path p (created or overwritten)
Write(fs0, p, c) ==
    [q \in (DOMAIN fs0) \cup {p} |-> IF q = p THEN c ELSE fs0[q]]

\* one I/O call on a path
Ev(op, p) == <<op, p>>

\* one line of the log
LogLine(level, what, subject) == <<level, what, subject>>

----------------------------------------------------------------------------
(* Background remover *)

\* abs(x)
abs(x) == IF x < 0 THEN -x ELSE x

\* one pixel of img.convert("RGBA"): an opaque alpha is added to a colour, a
\* grey level is copied to the three colours, a pixel with alpha is kept
pixel_RGBA(mode, item) ==
    IF mode = "RGBA" THEN item
    ELSE IF mode = "RGB" THEN <<item[1], item[2], item[3], 255>>
    ELSE <<item[1], item[1], item[1], 255>>

\* img.convert("RGBA")
convert_RGBA(img) ==
    [mode |-> "RGBA",
     data |-> [i \in DOMAIN img.data |-> pixel_RGBA(img.mode, img.data[i])]]

\* a remover that also clears the pixels at the distance of the tolerance
remove_background_le(img, bg_color, tolerance) ==
    LET rgba == convert_RGBA(img)
        newData == [i \in DOMAIN rgba.data |->
                      LET item == rgba.data[i]
                      IN  IF /\ abs(item[1] - bg_color[1]) <= tolerance
                             /\ abs(item[2] - bg_color[2]) <= tolerance
                             /\ abs(item[3] - bg_color[3]) <= tolerance
                          THEN <<item[1], item[2], item[3], 0>>
                          ELSE item]
    IN  [rgba EXCEPT !.data = newData]

\* remove_background(img, bg_color, tolerance)
remove_background(img, bg_color, tolerance) ==
    LET rgba == convert_RGBA(img)
        newData == [i \in DOMAIN rgba.data |->
                      LET item == rgba.data[i]
                      IN  IF /\ abs(item[1] - bg_color[1]) < tolerance
                             /\ abs(item[2] - bg_color[2]) < tolerance
                             /\ abs(item[3] - bg_color[3]) < tolerance
                          THEN <<item[1], item[2], item[3], 0>>
                          ELSE item]
    IN  [rgba EXCEPT !.data = newData]

----------------------------------------------------------------------------
(* SVG export and Pillow's Image.save *)

\* save_as_svg without its try statement: a failed write is raised
save_as_svg_raise(fs0, img, output_path, outcome) ==
    IF outcome = "encode_fail"
    THEN [raised |-> TRUE, cause |-> "encode", fs |-> fs0, io |-> <<>>,
          logs |-> <<>>]
    ELSE IF outcome = "write_fail"
    THEN [raised |-> TRUE, cause |-> "io", fs |-> fs0,
          io |-> <<Ev("write", output_path)>>, logs |-> <<>>]
    ELSE [raised |-> FALSE, cause |-> "",
          fs |-> Write(fs0, output_path,
                       [origin |-> img.origin, enc |-> "SVG",
                        mode |-> "RGBA", size |-> img.size,
                        params |-> "png-base64"]),
          io |-> <<Ev("write", output_path)>>,
          logs |-> <<LogLine("debug", "SVG saved", output_path)>>]

\* save_as_svg(img, output_path); outcome is the environment's answer
save_as_svg(fs0, img, output_path, outcome) ==
    IF outcome = "encode_fail"
    THEN \* remove_background / img.save(buf) raise, outside the try
         [raised |-> TRUE, cause |-> "encode", fs |-> fs0, io |-> <<>>,
          logs |-> <<>>]
    ELSE IF outcome = "write_fail"
    THEN \* open()/write() raise inside the try: logged, not re-raised
         [raised |-> FALSE, cause |-> "", fs |-> fs0,
          io |-> <<Ev("write", output_path)>>,
          logs |-> <<LogLine("error", "Error saving SVG", output_path)>>]
    ELSE [raised |-> FALSE, cause |-> "",
          fs |-> Write(fs0, output_path,
                       [origin |-> img.origin, enc |-> "SVG",
                        mode |-> "RGBA", size |-> img.size,
                        params |-> "png-base64"]),
          io |-> <<Ev("write", output_path)>>,
          logs |-> <<LogLine("debug", "SVG saved", output_path)>>]

\* the encoders of the registry that Pillow has no save handler for
NoSaveHandler == {"EXCEL", "WORD", "CSV"}

\* img.save(out_path, output_format, **params)
img_save(fs0, img, out_path, output_format, params, outcome) ==
    IF output_format \in NoSaveHandler
    THEN \* the handler is looked up, and missed, before the file is opened
         [raised |-> TRUE, cause |-> "encode", fs |-> fs0, io |-> <<>>,
          logs |-> <<>>]
    ELSE IF outcome = "encode_fail"
    THEN [raised |-> TRUE, cause |-> "encode", fs |-> fs0, io |-> <<>>,
          logs |-> <<>>]
    ELSE IF outcome = "write_fail"
    THEN [raised |-> TRUE, cause |-> "io", fs |-> fs0,
          io |-> <<Ev("write", out_path)>>, logs |-> <<>>]
    ELSE [raised |-> FALSE, cause |-> "",
          fs |-> Write(fs0, out_path,
                       [origin |-> img.origin, enc |-> output_format,
                        mode |-> img.mode, size |-> img.size,
                        params |-> params]),
          io |-> <<Ev("write", out_path)>>, logs |-> <<>>]

----------------------------------------------------------------------------
(* Raster converter *)

\* a raster converter that coerces the mode for the JPEG encoder only
image_mode_jpeg(output_format, mode) ==
    IF output_format = "JPEG" /\ mode # "RGB"
    THEN "RGB"
    ELSE mode

\* the mode the image is encoded in: img.convert("RGB") changes the mode of
\* the image and keeps its size
image_mode(output_format, mode) ==
    IF output_format \in {"JPEG", "JPEG2000", "HEIC"} /\ mode # "RGB"
    THEN "RGB"
    ELSE mode

\* the encoder parameters chosen for the target
image_params(output_format) ==
    IF output_format = "SVG" THEN "svg"
    ELSE IF output_format = "JPEG" THEN "quality=100"
    ELSE IF output_format = "PDF" THEN "resolution=dpi"
    ELSE "default"

\* convert_image_file(file_path, output_folder, output_format, ext_out)
convert_image_file(fs0, file_path, out_folder, output_format, ext_out, env) ==
    LET out_path == MkPath(out_folder, file_path.stem, 0, ext_out)
        opened == <<Ev("open", file_path)>>
    IN  IF ~env.opens
        THEN [raised |-> TRUE, cause |-> "decode", result |-> 0, fs |-> fs0,
              io |-> opened, logs |-> <<>>, pages |-> <<>>]
        ELSE
        LET img == [origin |-> fs0[file_path].origin,
                    mode |-> image_mode(output_format, env.mode),
                    size |-> env.size]
            params == image_params(output_format)
            r == IF params = "svg"
                 THEN save_as_svg(fs0, img, out_path, env.outcome)
                 ELSE img_save(fs0, img, out_path, output_format, params,
                               env.outcome)
        IN  [raised |-> r.raised, cause |-> r.cause, result |-> 0,
             fs |-> r.fs, io |-> opened \o r.io,
             logs |-> IF r.raised THEN r.logs
                      ELSE r.logs \o <<LogLine("info", "Converted image", out_path)>>,
             pages |-> <<>>]

----------------------------------------------------------------------------
(* PDF rasterizer *)

\* the mode the page image is encoded in
page_mode(output_format, mode) ==
    IF output_format \in {"JPEG", "JPEG2000"} /\ mode # "RGB"
    THEN "RGB"
    ELSE mode

\* the encoder parameters chosen for the target
page_params(output_format) ==
    IF output_format = "SVG" THEN "svg"
    ELSE IF output_format = "JPEG" THEN "quality=100"
    ELSE IF output_format = "PDF" THEN "resolution=dpi"
    ELSE "default"

\* an artifact numbered by the count of the pages converted so far
page_path_count(acc, i, file_path, out_folder, ext_out) ==
    MkPath(out_folder, file_path.stem, acc.result + 1, ext_out)

\* output_folder / f"{base_name}_page{i + 1}{ext_out}"; acc is the state of
\* the call before the page of index i
page_path(acc, i, file_path, out_folder, ext_out) ==
    MkPath(out_folder, file_path.stem, i + 1, ext_out)

\* the body of the page loop for the page of index i (from 0): the try block
\* and its except clause. acc is the state of the call before the page.
pdf_page(acc, i, file_path, out_folder, output_format, ext_out, env) ==
    LET outcome == env.pages[i + 1]
        failed == LogLine("error", "Error converting PDF page",
                         MkPath(file_path.dir, file_path.stem, i + 1,
                                file_path.suffix))
    IN  IF outcome = "render_fail"
        THEN [acc EXCEPT !.logs = Append(@, failed),
                         !.pages = Append(@, [page |-> i + 1, rendered |-> FALSE,
                                              mode_in |-> "-", mode_out |-> "-",
                                              params |-> "-", counted |-> FALSE,
                                              out_path |-> page_path(acc, i, file_path, out_folder, ext_out)])]
        ELSE
        LET page_img == [origin |-> acc.fs[file_path].origin,
                         mode |-> page_mode(output_format, env.mode),
                         size |-> env.size]
            out_path == page_path(acc, i, file_path, out_folder, ext_out)
            params == page_params(output_format)
            r == IF params = "svg"
                 THEN save_as_svg(acc.fs, page_img, out_path, outcome)
                 ELSE img_save(acc.fs, page_img, out_path, output_format,
                               params, outcome)
            rec == [page |-> i + 1, rendered |-> TRUE, mode_in |-> env.mode,
                    mode_out |-> page_img.mode, params |-> params,
                    counted |-> ~r.raised, out_path |-> out_path]
        IN  IF r.raised
            THEN [acc EXCEPT !.io = @ \o r.io,
                             !.logs = Append(@ \o r.logs, failed),
                             !.pages = Append(@, rec)]
            ELSE [acc EXCEPT !.fs = r.fs,
                             !.io = @ \o r.io,
                             !.logs = Append(@ \o r.logs,
                                             LogLine("info", "Converted PDF page", out_path)),
                             !.pages = Append(@, rec),
                             !.result = @ + 1]

RECURSIVE pdf_loop_abort(_, _, _, _, _, _, _)
\* a page loop whose try block encloses the loop: the first failure ends it
pdf_loop_abort(acc, i, file_path, out_folder, output_format, ext_out, env) ==
    IF i >= Len(env.pages)
    THEN acc
    ELSE LET nxt == pdf_page(acc, i, file_path, out_folder, output_format,
                             ext_out, env)
         IN  IF nxt.result = acc.result
             THEN nxt
             ELSE pdf_loop_abort(nxt, i + 1, file_path, out_folder,
                                 output_format, ext_out, env)

RECURSIVE pdf_loop(_, _, _, _, _, _, _)
\* for i, page in enumerate(doc): from index i on
pdf_loop(acc, i, file_path, out_folder, output_format, ext_out, env) ==
    IF i >= Len(env.pages)
    THEN acc
    ELSE pdf_loop(pdf_page(acc, i, file_path, out_folder, output_format,
                           ext_out, env),
                  i + 1, file_path, out_folder, output_format, ext_out, env)

\* convert_pdf_file that lets the failure of fitz.open reach its caller
convert_pdf_file_raise(fs0, file_path, out_folder, output_format, ext_out, env) ==
    IF ~env.opens
    THEN [raised |-> TRUE, cause |-> "open", result |-> 0, fs |-> fs0,
          io |-> <<Ev("open", file_path)>>, logs |-> <<>>, pages |-> <<>>]
    ELSE pdf_loop([raised |-> FALSE, cause |-> "", result |-> 0,
                   fs |-> fs0, io |-> <<Ev("open", file_path)>>,
                   logs |-> <<>>, pages |-> <<>>],
                  0, file_path, out_folder, output_format, ext_out, env)

\* convert_pdf_file(file_path, output_folder, output_format, ext_out)
convert_pdf_file(fs0, file_path, out_folder, output_format, ext_out, env) ==
    LET opened == <<Ev("open", file_path)>>
    IN  IF ~env.opens
        THEN [raised |-> FALSE, cause |-> "", result |-> 0, fs |-> fs0,
              io |-> opened,
              logs |-> <<LogLine("error", "Error opening PDF", file_path)>>,
              pages |-> <<>>]
        ELSE pdf_loop([raised |-> FALSE, cause |-> "", result |-> 0,
                       fs |-> fs0, io |-> opened, logs |-> <<>>,
                       pages |-> <<>>],
                      0, file_path, out_folder, output_format, ext_out, env)

----------------------------------------------------------------------------
(* Document passthrough *)

\* convert_document_file that keeps the suffix of the source in the copy's name
convert_document_file_suffix(fs0, file_path, out_folder, output_format, ext_out, env) ==
    LET out_path == MkPath(out_folder, file_path.stem, 0, file_path.suffix)
        copy == <<Ev("copy", file_path)>>
        failed == <<LogLine("error", "Error copying document", file_path)>>
    IN  IF out_path = file_path \/ env.outcome # "ok"
        THEN [raised |-> FALSE, cause |-> "", result |-> 0, fs |-> fs0,
              io |-> copy, logs |-> failed, pages |-> <<>>]
        ELSE [raised |-> FALSE, cause |-> "", result |-> 0,
              fs |-> Write(fs0, out_path, fs0[file_path]),
              io |-> copy \o <<Ev("write", out_path)>>,
              logs |-> <<LogLine("info", "Copied document", out_path)>>,
              pages |-> <<>>]

\* convert_document_file(file_path, output_folder, output_format, ext_out)
convert_document_file(fs0, file_path, out_folder, output_format, ext_out, env) ==
    LET out_path == MkPath(out_folder, file_path.stem, 0, ext_out)
        copy == <<Ev("copy", file_path)>>
        failed == <<LogLine("error", "Error copying document", file_path)>>
    IN  IF out_path = file_path
        THEN \* shutil.copy raises SameFileError: caught and logged
             [raised |-> FALSE, cause |-> "", result |-> 0, fs |-> fs0,
              io |-> copy, logs |-> failed, pages |-> <<>>]
        ELSE IF env.outcome # "ok"
        THEN [raised |-> FALSE, cause |-> "", result |-> 0, fs |-> fs0,
              io |-> copy \o <<Ev("write", out_path)>>, logs |-> failed,
              pages |-> <<>>]
        ELSE [raised |-> FALSE, cause |-> "", result |-> 0,
              fs |-> Write(fs0, out_path, fs0[file_path]),
              io |-> copy \o <<Ev("write", out_path)>>,
              logs |-> <<LogLine("info", "Copied document", out_path)>>,
              pages |-> <<>>]

----------------------------------------------------------------------------
(* Conversion dispatcher *)

\* the list of document suffixes with one suffix forgotten
DocExtsNoCsv == {".doc", ".docx", ".xlsx", ".xls"}

\* the suffixes of line 398
DocExts == {".doc", ".docx", ".xlsx", ".xls", ".csv"}

\* the list of document encoders with one encoder forgotten
DocFormatsNoExcel == {"WORD", "CSV"}

\* the encoders of lines 399 and 404
DocFormats == {"EXCEL", "WORD", "CSV"}

\* raise ValueError(...): nothing was opened, nothing was written
Rejected(fs0, cause) ==
    [raised |-> TRUE, cause |-> cause, result |-> 0, fs |-> fs0, io |-> <<>>,
     logs |-> <<>>, pages |-> <<>>]

\* convert_file(file_path, output_folder, selected_format)
convert_file(fs0, file_path, out_folder, format_name, env) ==
    LET output_format == FormatGet(format_name)[1]
        ext_out == FormatGet(format_name)[2]
        ext_in == lower(file_path.suffix)
    IN  IF ext_in = ".pdf"
        THEN convert_pdf_file(fs0, file_path, out_folder, output_format,
                              ext_out, env)
        ELSE IF ext_in \in DocExts
        THEN IF output_format \notin DocFormats
             THEN Rejected(fs0, "Cannot convert document file")
             ELSE [convert_document_file(fs0, file_path, out_folder,
                                         output_format, ext_out, env)
                   EXCEPT !.result = 1]
        ELSE IF output_format \in DocFormats
             THEN Rejected(fs0, "Cannot convert image file")
             ELSE LET r == convert_image_file(fs0, file_path, out_folder,
                                              output_format, ext_out, env)
                  IN  IF r.raised THEN r ELSE [r EXCEPT !.result = 1]

----------------------------------------------------------------------------
(* One call of convert_file, on every kind of source and target *)

\* suffixes of the sources: the supported ones, mixed-case ones, an
\* unsupported one and none
CallSuffixes == SUPPORTED_EXTS \cup DOMAIN UpperSuffixes \cup {".txt", ""}

\* names given as selected_format: the registry's keys and two other names
CallFormats == OUTPUT_FORMAT_LIST \cup {"RAW", "jpeg"}

\* sources lie in the output folder or in another one
Dirs == {"in", "out"}

Modes == {"RGB", "RGBA", "L"}

\* width and height of the decoded images
Sizes == {<<1, 1>>, <<4, 3>>}

PageOutcomes == {"ok", "render_fail", "encode_fail", "write_fail"}

PageSeqs == UNION {[1..k -> PageOutcomes] : k \in 0..MaxPages}

\* the answers of the libraries that the conversion of a source can meet.
\* The pages of a document are rendered by one get_pixmap call with the same
\* arguments, so they share a mode.
EnvsOf(suffix) ==
    IF lower(suffix) = ".pdf"
    THEN {[opens |-> FALSE, outcome |-> "ok", mode |-> "RGB",
           size |-> <<0, 0>>, pages |-> <<>>]}
         \cup [opens : {TRUE}, outcome : {"ok"}, mode : Modes,
               size : {<<4, 3>>}, pages : PageSeqs]
    ELSE IF lower(suffix) \in DocExts
    THEN [opens : {TRUE}, outcome : {"ok", "write_fail"}, mode : {"-"},
          size : {<<0, 0>>}, pages : {<<>>}]
    ELSE {[opens |-> FALSE, outcome |-> "ok", mode |-> "RGB",
           size |-> <<0, 0>>, pages |-> <<>>]}
         \cup [opens : {TRUE}, outcome : {"ok", "encode_fail", "write_fail"},
               mode : Modes, size : Sizes, pages : {<<>>}]

Requests ==
    UNION { [file : {MkPath(d, "a", 0, x)}, folder : {"out"},
             fmt : CallFormats, env : EnvsOf(x)]
            : <<d, x>> \in Dirs \X CallSuffixes }

NotCalled ==
    [called |-> FALSE, raised |-> FALSE, cause |-> "", result |-> 0,
     io |-> <<>>, logs |-> <<>>, pages |-> <<>>]

None == "None"

NotReported == [shown |-> FALSE, count |-> 0, errors |-> <<>>]

\* ImageConverterApp.__init__
InitApp ==
    /\ files = <<>>
    /\ output_folder = None
    /\ format_var = "JPEG"
    /\ buttons = "normal"
    /\ progress = [shown |-> FALSE, maximum |-> 100, value |-> 0]
    /\ pc = "idle"
    /\ it = 0
    /\ count = 0
    /\ errors = <<>>
    /\ selected_format = "JPEG"
    /\ afterQueue = <<>>
    /\ log = <<>>
    /\ stepped = 0
    /\ reported = NotReported
    /\ runs = 0

InitCall ==
    /\ req \in Requests
    /\ res = NotCalled
    /\ fs = [p \in {req.file} |-> Bytes(p)]
    /\ InitApp

\* result = convert_file(file, output_folder, selected_format)
Call ==
    /\ ~res.called
    /\ LET r == convert_file(fs, req.file, req.folder, req.fmt, req.env)
       IN  /\ res' = [called |-> TRUE, raised |-> r.raised, cause |-> r.cause,
                      result |-> r.result, io |-> r.io, logs |-> r.logs,
                      pages |-> r.pages]
           /\ fs' = r.fs
    /\ UNCHANGED <<req, appVars>>

SpecCall == InitCall /\ [][Call]_vars

----------------------------------------------------------------------------
(* One call of remove_background, on small images *)

\* the values a colour channel takes: at distances 55, 30 and 5 from white
Channels == {200, 225, 250}

\* the pixels of an image of a mode
PixelsOf(mode) ==
    IF mode = "RGBA" THEN Channels \X Channels \X Channels \X {128}
    ELSE IF mode = "RGB" THEN Channels \X Channels \X Channels
    ELSE {<<l>> : l \in Channels}

\* the images: one to MaxPixels pixels of one mode
Images ==
    UNION { [mode : {m}, data : [1..n -> PixelsOf(m)]]
            : <<m, n>> \in Modes \X (1..MaxPixels) }

\* the reference colours: the default, and one between the channel values
BgColors == {<<255, 255, 255>>, <<225, 240, 250>>}

\* the tolerances: the default, its neighbour, and none
Tolerances == {30, 31, 0}

PixelRequests == [img : Images, bg_color : BgColors, tolerance : Tolerances]

NoImage == [called |-> FALSE, img |-> [mode |-> "-", data |-> <<>>]]

InitPixel ==
    /\ req \in PixelRequests
    /\ res = NoImage
    /\ fs = <<>>
    /\ InitApp

\* img = remove_background(img, bg_color, tolerance)
CallRemoveBackground ==
    /\ ~res.called
    /\ res' = [called |-> TRUE,
               img |-> remove_background(req.img, req.bg_color, req.tolerance)]
    /\ UNCHANGED <<req, fs, appVars>>

SpecPixel == InitPixel /\ [][CallRemoveBackground]_vars

----------------------------------------------------------------------------
(* The application: the file list, the buttons, the worker thread *)

\* the files the user can pick or drop: two images with the same stem, a
\* PDF and a document
BatchFiles ==
    { MkPath("in", "a", 0, ".png"), MkPath("in", "a", 0, ".bmp"),
      MkPath("in", "b", 0, ".pdf"), MkPath("in", "c", 0, ".csv") }

\* what a drop event can carry besides: an unsupported file, a missing file
DropPaths ==
    BatchFiles \cup {MkPath("in", "d", 0, ".txt"), MkPath("in", "e", 0, ".png")}

\* the formats chosen in the combobox
BatchFormats == {"JPEG", "CSV"}

\* the library answers met during a run
BatchEnvsOf(suffix) ==
    { e \in EnvsOf(suffix) :
        /\ e.mode \in {"RGBA", "-"} \/ ~e.opens
        /\ e.size # <<1, 1>>
        /\ e.outcome \in {"ok", "write_fail"}
        /\ Len(e.pages) < MaxPages
        /\ \A i \in DOMAIN e.pages : e.pages[i] \in {"ok", "render_fail"} }

NoRequest ==
    [file |-> MkPath("", "", 0, ""), folder |-> "", fmt |-> "",
     env |-> [opens |-> FALSE, outcome |-> "ok", mode |-> "-",
              size |-> <<0, 0>>, pages |-> <<>>]]

Init ==
    /\ req = NoRequest
    /\ res = NotCalled
    /\ fs = [p \in BatchFiles \cup {MkPath("in", "d", 0, ".txt")} |-> Bytes(p)]
    /\ InitApp

\* str.upper() on a format name
LowerNames == ("jpeg" :> "JPEG" @@ "svg" :> "SVG" @@ "csv" :> "CSV")

upper(s) == IF s \in DOMAIN LowerNames THEN LowerNames[s] ELSE s

\* the model follows the application until its last run has completed
Active == runs < MaxRuns \/ pc # "idle"

\* list.remove(x): the list without the first occurrence of x
RECURSIVE list_remove(_, _)
list_remove(list, x) ==
    IF list = <<>> THEN <<>>
    ELSE IF Head(list) = x THEN Tail(list)
    ELSE <<Head(list)>> \o list_remove(Tail(list), x)

\* select_files: the dialog returns one file
select_files ==
    /\ Active
    /\ buttons = "normal"
    /\ Len(files) < MaxFiles
    /\ \E f \in BatchFiles : files' = files \o <<f>>
    /\ UNCHANGED <<req, res, fs, output_folder, format_var, buttons, progress,
                   pc, it, count, errors, selected_format, afterQueue, log,
                   stepped, reported, runs>>

\* drop(event): the drop area is bound once in __init__ and stays bound
drop ==
    /\ Active
    /\ Len(files) < MaxFiles
    /\ \E path \in DropPaths :
          LET valid_files ==
                  IF path \in DOMAIN fs /\ lower(path.suffix) \in SUPPORTED_EXTS
                  THEN <<path>> ELSE <<>>
          IN  files' = IF valid_files # <<>> THEN files \o valid_files ELSE files
    /\ UNCHANGED <<req, res, fs, output_folder, format_var, buttons, progress,
                   pc, it, count, errors, selected_format, afterQueue, log,
                   stepped, reported, runs>>

\* remove_file(file): the button of a file shown in the preview
remove_file ==
    /\ Active
    /\ \E i \in DOMAIN files : files' = list_remove(files, files[i])
    /\ UNCHANGED <<req, res, fs, output_folder, format_var, buttons, progress,
                   pc, it, count, errors, selected_format, afterQueue, log,
                   stepped, reported, runs>>

\* clear_all_files
clear_all_files ==
    /\ Active
    /\ buttons = "normal"
    /\ files # <<>>
    /\ files' = <<>>
    /\ UNCHANGED <<req, res, fs, output_folder, format_var, buttons, progress,
                   pc, it, count, errors, selected_format, afterQueue, log,
                   stepped, reported, runs>>

\* select_output_folder
select_output_folder ==
    /\ Active
    /\ buttons = "normal"
    /\ output_folder = None
    /\ output_folder' = "out"
    /\ UNCHANGED <<req, res, fs, files, format_var, buttons, progress, pc, it,
                   count, errors, selected_format, afterQueue, log, stepped, reported, runs>>

\* the format combobox (readonly, never disabled)
select_format ==
    /\ Active
    /\ \E f \in BatchFormats : f # format_var /\ format_var' = f
    /\ UNCHANGED <<req, res, fs, files, output_folder, buttons, progress, pc,
                   it, count, errors, selected_format, afterQueue, log,
                   stepped, reported, runs>>

\* start_conversion_thread
start_conversion_thread ==
    /\ buttons = "normal"
    /\ runs < MaxRuns
    /\ files # <<>>
    /\ output_folder # None
    /\ buttons' = "disabled"
    /\ progress' = [shown |-> TRUE, maximum |-> Len(files), value |-> 0]
    /\ pc' = "begin"
    /\ stepped' = 0
    /\ log' = <<>>
    /\ reported' = NotReported
    /\ runs' = runs + 1
    /\ UNCHANGED <<req, res, fs, files, output_folder, format_var, it, count,
                   errors, selected_format, afterQueue>>

\* convert_files, up to the for statement
convert_files_begin ==
    /\ pc = "begin"
    /\ count' = 0
    /\ errors' = <<>>
    /\ selected_format' = upper(format_var)
    /\ it' = 0
    /\ pc' = "loop"
    /\ UNCHANGED <<req, res, fs, files, output_folder, format_var, buttons,
                   progress, afterQueue, log, stepped, reported,
                   runs>>

\* an except clause that drops the error
loop_body_swallow(cnt, errs, file, r) ==
    IF r.raised
    THEN [count |-> cnt, errors |-> errs]
    ELSE [count |-> cnt + r.result, errors |-> errs]

\* the try statement of the loop of convert_files, given what the call did
loop_body(cnt, errs, file, r) ==
    IF r.raised
    THEN [count |-> cnt, errors |-> Append(errs, <<file, r.cause>>)]
    ELSE [count |-> cnt + r.result, errors |-> errs]

\* convert_files: one iteration of the loop over self.files
convert_files_step ==
    /\ pc = "loop"
    /\ it < Len(files)
    /\ LET file == files[it + 1]
       IN  \E env \in BatchEnvsOf(file.suffix) :
             LET r == convert_file(fs, file, output_folder, selected_format, env)
                 b == loop_body(count, errors, file, r)
             IN  /\ fs' = r.fs
                 /\ count' = b.count
                 /\ errors' = b.errors
                 /\ log' = Append(log, [file |-> file, raised |-> r.raised,
                                        cause |-> r.cause, result |-> r.result])
    /\ it' = it + 1
    /\ afterQueue' = Append(afterQueue, "step")
    /\ UNCHANGED <<req, res, files, output_folder, format_var, buttons,
                   progress, pc, selected_format, stepped,
                   reported, runs>>

\* convert_files: the iterator is exhausted, conversion_complete is posted
convert_files_end ==
    /\ pc = "loop"
    /\ it >= Len(files)
    /\ afterQueue' = Append(afterQueue, "complete")
    /\ pc' = "exit"
    /\ UNCHANGED <<req, res, fs, files, output_folder, format_var, buttons,
                   progress, it, count, errors, selected_format, log,
                   stepped, reported, runs>>

\* the main loop runs self.progress.step(1)
progress_step ==
    /\ afterQueue # <<>>
    /\ Head(afterQueue) = "step"
    /\ afterQueue' = Tail(afterQueue)
    /\ progress' = [progress EXCEPT !.value = (@ + 1) % progress.maximum]
    /\ stepped' = stepped + 1
    /\ UNCHANGED <<req, res, fs, files, output_folder, format_var, buttons,
                   pc, it, count, errors, selected_format, log, reported, runs>>

\* the main loop runs conversion_complete(count, errors)
conversion_complete ==
    /\ afterQueue # <<>>
    /\ Head(afterQueue) = "complete"
    /\ afterQueue' = Tail(afterQueue)
    /\ reported' = [shown |-> TRUE, count |-> count, errors |-> errors]
    /\ files' = <<>>
    /\ progress' = [progress EXCEPT !.shown = FALSE]
    /\ buttons' = "normal"
    /\ pc' = "idle"
    /\ UNCHANGED <<req, res, fs, output_folder, format_var, it, count, errors,
                   selected_format, log, stepped, runs>>

Next ==
    \/ select_files
    \/ drop
    \/ remove_file
    \/ clear_all_files
    \/ select_output_folder
    \/ select_format
    \/ start_conversion_thread
    \/ convert_files_begin
    \/ convert_files_step
    \/ convert_files_end
    \/ progress_step
    \/ conversion_complete

Spec == Init /\ [][Next]_vars

----------------------------------------------------------------------------
(* Properties of one call of convert_file (checked under SpecCall) *)

\* the lowercase extension of the source of the call
ExtIn == lower(req.file.suffix)

\* the encoder and the extension the format name of the call resolves to
Encoder == FormatGet(req.fmt)[1]

ExtOut == FormatGet(req.fmt)[2]

\* where the single artifact of an image or a document goes
OutPath == MkPath(req.folder, req.file.stem, 0, ExtOut)

\* the file system before the call
FsBefore == [p \in {req.file} |-> Bytes(p)]

DocSource == ExtIn \in {".doc", ".docx", ".xlsx", ".xls", ".csv"}

PdfSource == ExtIn = ".pdf"

RasterSource == ~DocSource /\ ~PdfSource

DocTarget == Encoder \in {"EXCEL", "WORD", "CSV"}

\* C1: a raster source with a document encoder, and a document source with
\* any other encoder, are rejected with an error before the source is
\* opened and before anything is written.
C1_RejectsBeforeIO ==
    res.called /\ ((RasterSource /\ DocTarget) \/ (DocSource /\ ~DocTarget))
        => res.raised /\ res.io = <<>> /\ fs = FsBefore

C1_Witness ==
    /\ res.called /\ res.raised /\ res.io = <<>>
    /\ DocSource /\ ~DocTarget
    /\ req.file.suffix = ".Csv"

\* page k of the document of the call raises nothing in the page loop
PageSucceeds(k) ==
    \/ req.env.pages[k] = "ok" /\ ~DocTarget
    \/ req.env.pages[k] = "write_fail" /\ Encoder = "SVG"

\* C2: for a PDF that opens with N pages every page is visited, in order,
\* whatever happened on earlier pages; a page that fails is not counted;
\* nothing is raised; the count is the number of pages that succeeded.
C2_PageIsolation ==
    res.called /\ PdfSource /\ req.env.opens
        => LET N == Len(req.env.pages)
           IN  /\ ~res.raised
               /\ Len(res.pages) = N
               /\ \A k \in 1..N :
                     /\ res.pages[k].page = k
                     /\ res.pages[k].counted <=> PageSucceeds(k)
               /\ res.result = Cardinality({k \in 1..N : PageSucceeds(k)})
               /\ 0 <= res.result /\ res.result <= N

C2_Witness ==
    /\ res.called /\ PdfSource /\ req.env.opens /\ ~res.raised
    /\ \E j, k \in DOMAIN res.pages :
          j < k /\ ~res.pages[j].counted /\ res.pages[k].counted
    /\ res.result = Len(req.env.pages) - 1

\* C5 as stated: a .csv source with target EXCEL is rejected, nothing is
\* written and the file counts for 0.
C5_CsvToExcelRejected ==
    res.called /\ ExtIn = ".csv" /\ req.fmt = "EXCEL"
        => res.raised /\ res.io = <<>> /\ fs = FsBefore

\* C5 amended: a .csv source with target EXCEL is accepted: nothing is
\* raised, the count is 1 and, when the copy succeeds, the bytes of the
\* source are at <stem>.xlsx.
C5_CsvToExcelAccepted ==
    res.called /\ ExtIn = ".csv" /\ req.fmt = "EXCEL"
        => /\ ~res.raised
           /\ res.result = 1
           /\ req.env.outcome = "ok"
                 => LET p == MkPath("out", req.file.stem, 0, ".xlsx")
                    IN  p \in DOMAIN fs /\ fs[p] = Bytes(req.file)

C5_Witness ==
    /\ res.called /\ req.file.suffix = ".csv" /\ req.fmt = "EXCEL"
    /\ req.env.outcome = "ok" /\ res.result = 1
    /\ MkPath("out", "a", 0, ".xlsx") \in DOMAIN fs

\* C6: a document source with a document target, when the copy succeeds,
\* returns 1 and leaves at outputDir/(stem + target extension) the bytes of
\* the source, the source being unchanged.
C6_VerbatimCopy ==
    res.called /\ DocSource /\ DocTarget /\ req.env.outcome = "ok"
        => /\ ~res.raised
           /\ res.result = 1
           /\ OutPath \in DOMAIN fs /\ fs[OutPath] = Bytes(req.file)
           /\ req.file \in DOMAIN fs /\ fs[req.file] = Bytes(req.file)

C6_Witness ==
    /\ res.called /\ req.file = MkPath("in", "a", 0, ".csv") /\ req.fmt = "CSV"
    /\ req.env.outcome = "ok"
    /\ fs[MkPath("out", "a", 0, ".csv")] = Bytes(req.file)

\* C7: when the output cannot be written, a raster conversion to a target
\* other than SVG and a document passthrough both fail the file: the call
\* reports the failure to its caller.
C7_WriteFailureFailsFile ==
    /\ res.called /\ req.env.opens /\ req.env.outcome = "write_fail"
    /\ \/ RasterSource /\ ~DocTarget /\ Encoder # "SVG"
       \/ DocSource /\ DocTarget /\ OutPath # req.file
    => res.raised

\* C8: a failed write of the SVG output is logged and swallowed: the raster
\* conversion returns 1 without an error, and the PDF page is counted.
C8_SvgWriteSwallowed ==
    res.called /\ Encoder = "SVG" /\ req.env.opens
        => /\ RasterSource /\ req.env.outcome = "write_fail"
                => /\ ~res.raised /\ res.result = 1
                   /\ fs = FsBefore
                   /\ \E i \in DOMAIN res.logs :
                         res.logs[i] = LogLine("error", "Error saving SVG", OutPath)
           /\ PdfSource
                => /\ ~res.raised
                   /\ \A k \in DOMAIN req.env.pages :
                         req.env.pages[k] = "write_fail"
                             => /\ res.pages[k].counted
                                /\ res.pages[k].out_path \notin DOMAIN fs
                   /\ res.result >= Cardinality({k \in DOMAIN req.env.pages :
                                                   req.env.pages[k] = "write_fail"})

C8_Witness ==
    /\ res.called /\ req.fmt = "SVG" /\ PdfSource /\ req.env.opens
    /\ \E k \in DOMAIN req.env.pages :
          req.env.pages[k] = "write_fail" /\ res.pages[k].counted
    /\ res.result = Len(req.env.pages)

\* C9: for every encoder and every mode the PDF rasterizer decides the mode
\* coercion and the encoder parameters of a page as the raster converter
\* decides them for an image of that mode.
C9_SameDecision ==
    res.called /\ PdfSource
        => \A k \in DOMAIN res.pages :
             res.pages[k].rendered
                 => /\ res.pages[k].mode_out
                          = image_mode(Encoder, res.pages[k].mode_in)
                    /\ res.pages[k].params = image_params(Encoder)

\* C10 as stated: a PDF that cannot be opened processes no page, writes
\* nothing, counts 0, and the error reaches the caller.
C10_OpenFailureReported ==
    res.called /\ PdfSource /\ ~req.env.opens
        => /\ res.pages = <<>> /\ fs = FsBefore /\ res.result = 0
           /\ res.raised

\* C10 amended: a PDF that cannot be opened processes no page, writes
\* nothing and counts 0; the error is logged and not raised: the caller
\* gets a count of 0 and no error.
C10_OpenFailureLogged ==
    res.called /\ PdfSource /\ ~req.env.opens
        => /\ res.pages = <<>> /\ fs = FsBefore /\ res.result = 0
           /\ ~res.raised
           /\ res.logs = <<LogLine("error", "Error opening PDF", req.file)>>

C10_Witness ==
    /\ res.called /\ req.file.suffix = ".PDF" /\ ~req.env.opens
    /\ res.result = 0 /\ ~res.raised

\* what convert_file does on the request of the call with another format name
CallWith(format_name) ==
    convert_file(FsBefore, req.file, req.folder, format_name, req.env)

\* C11: a format name that is no key of the registry resolves, without
\* failing, to encoder JPEG and extension .jpg, and convert_file behaves
\* with it exactly as with the name JPEG, for every class of source.
C11_UnregisteredIsJpeg ==
    res.called /\ req.fmt \notin
        {"JPEG", "JPG", "JPGE", "JFIF", "PNG", "BMP", "GIF", "TIFF", "WEBP",
         "ICO", "PPM", "TGA", "JPEG2000", "PDF", "SVG", "HEIC", "EXCEL",
         "WORD", "CSV"}
        => /\ Encoder = "JPEG" /\ ExtOut = ".jpg"
           /\ fs = CallWith("JPEG").fs
           /\ res.raised = CallWith("JPEG").raised
           /\ res.cause = CallWith("JPEG").cause
           /\ res.result = CallWith("JPEG").result
           /\ res.io = CallWith("JPEG").io
           /\ res.logs = CallWith("JPEG").logs
           /\ res.pages = CallWith("JPEG").pages
           /\ DocSource => res.raised
           /\ RasterSource /\ req.env.opens /\ req.env.outcome = "ok"
                 => /\ OutPath \in DOMAIN fs
                    /\ fs[OutPath].enc = "JPEG"
                    /\ OutPath.suffix = ".jpg"

C11_Witness ==
    /\ res.called /\ req.fmt = "RAW" /\ req.file.suffix = ".png"
    /\ req.env.opens /\ req.env.outcome = "ok"
    /\ res.result = 1
    /\ MkPath("out", "a", 0, ".jpg") \in DOMAIN fs
    /\ fs[MkPath("out", "a", 0, ".jpg")].enc = "JPEG"

----------------------------------------------------------------------------
(* Properties of the raster converter *)

\* C13: the raster converter converts the decoded image to RGB before the
\* encoding exactly when the encoder is JPEG, JPEG2000 or HEIC and the mode
\* is not RGB, and never changes its size: a source with an alpha channel
\* converted to JPEG gives an artifact without alpha, of the width and the
\* height of the source.
C13_RgbCoercion ==
    res.called /\ RasterSource /\ ~DocTarget /\ Encoder # "SVG"
    /\ req.env.opens /\ req.env.outcome = "ok"
        => /\ OutPath \in DOMAIN fs
           /\ fs[OutPath].enc = Encoder
           /\ fs[OutPath].size = req.env.size
           /\ Encoder \in {"JPEG", "JPEG2000", "HEIC"}
                 => fs[OutPath].mode = "RGB"
           /\ Encoder \notin {"JPEG", "JPEG2000", "HEIC"}
                 => fs[OutPath].mode = req.env.mode
           /\ req.env.mode = "RGB" => fs[OutPath].mode = "RGB"

C13_Witness ==
    /\ res.called /\ req.file.suffix = ".png" /\ req.fmt = "JPEG"
    /\ req.env.opens /\ req.env.outcome = "ok"
    /\ req.env.mode = "RGBA" /\ req.env.size = <<4, 3>>
    /\ MkPath("out", "a", 0, ".jpg") \in DOMAIN fs
    /\ fs[MkPath("out", "a", 0, ".jpg")].mode = "RGB"
    /\ fs[MkPath("out", "a", 0, ".jpg")].size = <<4, 3>>
    /\ fs[MkPath("out", "a", 0, ".jpg")].enc = "JPEG"

----------------------------------------------------------------------------
(* Properties of the names of the page artifacts *)

\* the name of the artifact of page k (from 1) of the document of the call
PageName(k) == MkPath(req.folder, req.file.stem, k, ExtOut)

\* the files the call has created
Artifacts == (DOMAIN fs) \ (DOMAIN FsBefore)

\* C14 as stated: the pages are visited in the order of the document, page k
\* is written as <stem>_page<k><extension>, and the artifacts written are
\* exactly the names of the pages that succeeded, that is, were counted.
C14_ArtifactsOfCounted ==
    res.called /\ PdfSource /\ req.env.opens
        => /\ \A k \in DOMAIN res.pages :
                 res.pages[k].page = k /\ res.pages[k].out_path = PageName(k)
           /\ Artifacts = {PageName(k) : k \in {j \in DOMAIN res.pages :
                                                  res.pages[j].counted}}

\* C14 amended: the pages are visited in the order of the document and page
\* k is written as <stem>_page<k><extension>, whatever the number of pages
\* converted before it; the artifacts written are exactly the names of the
\* pages that were encoded and written. For every target but SVG these are
\* the pages counted; with target SVG a page whose write failed is counted
\* and has no artifact.
C14_PageNames ==
    res.called /\ PdfSource /\ req.env.opens
        => /\ Len(res.pages) = Len(req.env.pages)
           /\ \A k \in DOMAIN res.pages :
                 res.pages[k].page = k /\ res.pages[k].out_path = PageName(k)
           /\ Artifacts = {PageName(k) : k \in {j \in DOMAIN req.env.pages :
                                 req.env.pages[j] = "ok" /\ ~DocTarget}}
           /\ Artifacts \subseteq {PageName(k) : k \in {j \in DOMAIN res.pages :
                                        res.pages[j].counted}}
           /\ Encoder # "SVG"
                 => Artifacts = {PageName(k) : k \in {j \in DOMAIN res.pages :
                                                        res.pages[j].counted}}
           /\ \A p \in Artifacts : fs[p].origin = req.file

C14_Witness ==
    /\ res.called /\ PdfSource /\ req.fmt = "PNG"
    /\ req.env.pages = <<"ok", "render_fail", "ok">>
    /\ res.result = 2
    /\ Artifacts = {MkPath("out", "a", 1, ".png"), MkPath("out", "a", 3, ".png")}

----------------------------------------------------------------------------
(* Properties of the dispatcher on a PDF source *)

\* C17: a request with a document encoder (EXCEL, WORD, CSV) whose source is
\* not a document container, a .pdf source included, is rejected with an
\* error before any I/O: the PDF is not opened, no page is rendered, and no
\* count of 0 is returned without an error.
C17_PdfToDocumentRejected ==
    res.called /\ DocTarget /\ ~DocSource
        => /\ res.raised
           /\ res.io = <<>>
           /\ res.pages = <<>>
           /\ fs = FsBefore

----------------------------------------------------------------------------
(* Properties of one call of remove_background *)

\* the pixel of index i of the image given, as img.convert("RGBA") reads it
Before(i) == pixel_RGBA(req.img.mode, req.img.data[i])

\* the largest distance, over the three colours, of a pixel to the reference
Distance(item) ==
    LET d == [c \in 1..3 |-> IF item[c] >= req.bg_color[c]
                             THEN item[c] - req.bg_color[c]
                             ELSE req.bg_color[c] - item[c]]
    IN  CHOOSE m \in {d[1], d[2], d[3]} : \A c \in 1..3 : d[c] <= m

\* C12: remove_background keeps the pixels in their places; a pixel whose
\* distance to the reference colour is strictly less than the tolerance on
\* each of R, G and B gets alpha 0 with R, G, B unchanged; every other pixel
\* keeps its four channels, its alpha included. A distance equal to the
\* tolerance does not clear: with white and 30, (250,250,250) is cleared,
\* (225,225,225) and (200,200,200) are not.
C12_StrictTolerance ==
    res.called
        => /\ res.img.mode = "RGBA"
           /\ DOMAIN res.img.data = DOMAIN req.img.data
           /\ \A i \in DOMAIN req.img.data :
                 /\ Distance(Before(i)) < req.tolerance
                       => /\ res.img.data[i][4] = 0
                          /\ \A c \in 1..3 : res.img.data[i][c] = Before(i)[c]
                 /\ Distance(Before(i)) >= req.tolerance
                       => res.img.data[i] = Before(i)
                 /\ req.bg_color = <<255, 255, 255>> /\ req.tolerance = 30
                       => /\ Before(i)[1] = 250 /\ Before(i)[2] = 250
                             /\ Before(i)[3] = 250
                                => res.img.data[i][4] = 0
                          /\ Before(i)[1] = 225 /\ Before(i)[2] = 225
                             /\ Before(i)[3] = 225
                                => res.img.data[i][4] = Before(i)[4]
                          /\ Before(i)[1] = 200 /\ Before(i)[2] = 200
                             /\ Before(i)[3] = 200
                                => res.img.data[i][4] = Before(i)[4]

C12_Witness ==
    /\ res.called
    /\ req.bg_color = <<255, 255, 255>> /\ req.tolerance = 30
    /\ req.img.mode = "RGBA"
    /\ req.img.data = << <<250, 250, 250, 128>>, <<225, 225, 225, 128>> >>
    /\ res.img.data = << <<250, 250, 250, 0>>, <<225, 225, 225, 128>> >>

----------------------------------------------------------------------------
(* Properties of a batch run (checked under Spec) *)

\* the error entries convert_files owes for the calls of the run
RECURSIVE RaisedOf(_)
RaisedOf(l) ==
    IF l = <<>> THEN <<>>
    ELSE (IF Head(l).raised THEN <<<<Head(l).file, Head(l).cause>>>> ELSE <<>>)
         \o RaisedOf(Tail(l))

\* the sum of the counts returned by the calls of the run that did not raise
RECURSIVE ReturnedSum(_)
ReturnedSum(l) ==
    IF l = <<>> THEN 0
    ELSE (IF Head(l).raised THEN 0 ELSE Head(l).result) + ReturnedSum(Tail(l))

\* C3 as stated: convert_file never raises for a single file.
C3_NeverRaises == \A i \in DOMAIN log : ~log[i].raised

\* C3 amended: convert_file does raise; its caller convert_files catches
\* every exception, records one error entry for the file, adds nothing to
\* the count and goes on with the next file, so the failures reach the user
\* as data (the total and the error list) when the run completes.
C3_CaughtByDriver ==
    /\ pc \in {"loop", "exit"}
         => /\ errors = RaisedOf(log)
            /\ count = ReturnedSum(log)
            /\ it = Len(log)
    /\ reported.shown
         => /\ reported.errors = RaisedOf(log)
            /\ reported.count = ReturnedSum(log)

C3_Witness ==
    /\ reported.shown
    /\ Len(log) = 2
    /\ log[1].raised /\ ~log[2].raised
    /\ Len(reported.errors) = 1 /\ reported.count = log[2].result
    /\ reported.count > 0

\* the files convert_file was called on in the run, in call order
Attempted == [i \in DOMAIN log |-> log[i].file]

\* C4: every file of the list is attempted exactly once in list order
\* whatever failed before (the files the loop has passed are the files
\* attempted, position by position), the progress indicator is advanced once per file,
\* the reported total is the sum of the counts of the files that did not
\* fail and the error list has one entry per file whose conversion raised.
C4_BatchCompletes ==
    /\ pc = "loop"
         => \A i \in 1..it : i <= Len(files) => files[i] = Attempted[i]
    /\ reported.shown
         => /\ stepped = Len(log)
            /\ reported.count = ReturnedSum(log)
            /\ Len(reported.errors) = Cardinality({i \in DOMAIN log : log[i].raised})

\* call i of the run converted a raster file and wrote its artifact
WroteImage(i) ==
    /\ ~log[i].raised
    /\ lower(log[i].file.suffix) \notin {".pdf", ".doc", ".docx", ".xlsx", ".xls", ".csv"}
    /\ FormatGet(selected_format)[1] # "SVG"

\* the output path of the file of call i
OutOf(i) ==
    MkPath(output_folder, log[i].file.stem, 0, FormatGet(selected_format)[2])

\* the last call of the run so far that wrote the output path of call i
LastWriter(i) ==
    CHOOSE k \in DOMAIN log :
        /\ WroteImage(k) /\ OutOf(k) = OutOf(i)
        /\ \A m \in DOMAIN log : WroteImage(m) /\ OutOf(m) = OutOf(i) => m <= k

\* C15: output names are not checked for collisions: when two files of a
\* run map to the same output path, the later conversion overwrites the
\* artifact of the earlier one, neither call raises, no error is recorded
\* for them and both are counted.
C15_LaterOverwrites ==
    pc \in {"loop", "exit"}
        => \A i, j \in DOMAIN log :
              i < j /\ WroteImage(i) /\ WroteImage(j) /\ OutOf(i) = OutOf(j)
                 => /\ OutOf(j) \in DOMAIN fs
                    /\ fs[OutOf(j)].origin = log[LastWriter(j)].file
                    /\ log[i].result = 1 /\ log[j].result = 1
                    /\ count = ReturnedSum(log) /\ count >= 2
                    /\ \A e \in DOMAIN errors :
                          \E k \in DOMAIN log :
                             log[k].raised /\ errors[e][1] = log[k].file

\* two files of different content were counted and one artifact exists
C15_Witness ==
    /\ reported.shown /\ reported.count = 2 /\ reported.errors = <<>>
    /\ Len(log) = 2
    /\ log[1].file = MkPath("in", "a", 0, ".png")
    /\ log[2].file = MkPath("in", "a", 0, ".bmp")
    /\ {q \in DOMAIN fs : q.dir = "out"} = {MkPath("out", "a", 0, ".jpg")}
    /\ fs[MkPath("out", "a", 0, ".jpg")].origin = MkPath("in", "a", 0, ".bmp")

\* C16: from the start of a run until conversion_complete the file list is
\* not changed by the interactive thread: no drop event and no click on a
\* preview's remove button adds or removes a file while the worker iterates,
\* so the worker converts the files of the list of the start.
C16_ListFrozenDuringRun ==
    [][(pc # "idle" /\ pc' # "idle") => files' = files]_vars

====
